---- MODULE Spec2Model ----
(***************************************************************************)
(* goin: incremental full-text indexing of files on disk.                  *)
(*                                                                         *)
(* Two generations of the indexing pipeline are modelled, selected by the  *)
(* variable "version":                                                     *)
(*   "main"      - IndexFile / ProcessFile / CheckHash / WriteFileHash of  *)
(*                 main.go;                                                *)
(*   "processor" - the FileProcessor of the later source (ShouldProcess,   *)
(*                 Process, finishFile, Register).                         *)
(*                                                                         *)
(* A path is the sequence of its segments (<<"a", "notes.org">> is         *)
(* a/notes.org), a mime type the sequence of the parts around its "/"      *)
(* (<<"text", "x-org">> is text/x-org, <<"text">> the category text), a    *)
(* digest a sequence of HashLen bytes.                                     *)
(***************************************************************************)
EXTENDS Integers, Sequences, FiniteSets, TLC

VARIABLES
    version,    \* which generation of the program runs
    hashDirs,   \* directories that exist at and below the hash location
    fp,         \* fingerprint store: key (path below hashDir) -> stored bytes
    index,      \* search index: document id -> document
    reg,        \* processor.defaultMimeTypeHandlers
    first,      \* history: the translator each key was first registered with
    lastCheck,  \* the last direct call of CheckHash / checkHash and its result
    writing,    \* the fingerprint write in flight between os.Create and fd.Write
    batch,      \* one run of main: the files still to do, those tried, the process
    calls,      \* calls of IndexFile running at the same time: where each one is
    walk        \* IndexDirectory: the tree, the entries still to visit, the calls made

vars == <<version, hashDirs, fp, index, reg, first, lastCheck, writing, batch, calls, walk>>

----------------------------------------------------------------------------
(* Bounds and program constants *)

\* number of distinct file contents
NumContents == 3

\* the size threshold of IndexFile and ShouldProcess
MaxSize == 1000000

Contents == 1..NumContents

\* the size in bytes of each content: content 1 is one byte over the
\* threshold, content 2 is exactly at the threshold, the others are small
SizeOf(c) == IF c = 1 THEN MaxSize + 1 ELSE IF c = 2 THEN MaxSize ELSE 10 + c

Versions == {"main", "processor"}

\* the files each generation is run on: two files with the same base name,
\* one of them below a directory; main.go gets text files (and a file of a
\* type it does not handle), the processor files of a type that has no
\* built-in translator
MainPaths == { <<".", "notes.org">>, <<"a", "notes.org">>, <<"a", "app.wasm">> }

ProcessorPaths == { <<".", "app.wasm">>, <<"a", "app.wasm">> }

Paths == MainPaths \cup ProcessorPaths

----------------------------------------------------------------------------
(* Path and mime helpers of the Go standard library, on the model's paths *)

\* path.Clean / filepath.Clean: drops the "." segments
Clean(p) == SelectSeq(p, LAMBDA s : s # ".")

\* filepath.Base: the last segment (as a one-segment path)
Base(p) == <<p[Len(p)]>>

\* filepath.Dir of a key below the hash location
Parent(k) == SubSeq(k, 1, Len(k) - 1)

\* filepath.Ext of the model's file names
Ext(p) ==
    CASE p[Len(p)] = "notes.org" -> ".org"
      [] p[Len(p)] = "app.wasm" -> ".wasm"
      [] p[Len(p)] = "scan.pdf" -> ".pdf"
      [] OTHER -> ""

\* a type table that answers text/plain for an unknown extension
TypeByExtension_DefaultsToText(ext) ==
    CASE ext = ".org" -> <<"text", "x-org">>
      [] ext = ".wasm" -> <<"application", "wasm">>
      [] ext = ".pdf" -> <<"application", "pdf">>
      [] OTHER -> <<"text", "plain">>

\* mime.TypeByExtension followed by mime.ParseMediaType: .org is registered
\* by init(), .wasm is in Go's built-in table; <<>> is "no media type"
TypeByExtension(ext) ==
    CASE ext = ".org" -> <<"text", "x-org">>
      [] ext = ".wasm" -> <<"application", "wasm">>
      [] ext = ".pdf" -> <<"application", "pdf">>
      [] OTHER -> <<>>

\* strings.SplitN(mt, "/", 2)[0], as a registry key
Category(mt) == IF mt = <<>> THEN <<"">> ELSE <<mt[1]>>

\* sha256 of a content: a fixed-length byte string, injective on Contents
\* (the last byte identifies the content, the first is shared by several)
Digest(c) == <<c % 2, c>>

\* sha256.Size, in the model
HashLen == Len(Digest(1))

----------------------------------------------------------------------------
(* Maps with a growing domain: the fingerprint store, the index, the registry *)

EmptyMap == [k \in {} |-> <<>>]

MapPut(m, k, v) == [x \in DOMAIN m \cup {k} |-> IF x = k THEN v ELSE m[x]]

\* the outcomes the environment may give one fingerprint write:
\* MkdirAll fails, os.Create fails, or fd.Write writes n bytes (n < len is
\* a short write reported as an error)
FpOutcomes == { <<"mkdir">>, <<"create">> } \cup { <<"write", n>> : n \in 0..HashLen }

\* what the environment decides in one processing call: whether reading
\* the file for its digest succeeds, whether the extractor succeeds,
\* whether the index write succeeds, and the outcome of the fingerprint
\* write; a step that is not reached has no outcome, so the outcomes after
\* the first failure are fixed to success
IOAll ==
    { io \in [hash : BOOLEAN, extract : BOOLEAN, index : BOOLEAN, fp : FpOutcomes] :
        /\ ~io.extract => io.index
        /\ ~(io.extract /\ io.index) => io.fp = <<"write", HashLen>> }

\* the failures of the pipeline proper: extractor, index write and
\* fingerprint write are each free to fail; the file itself is readable
IOBase == { io \in IOAll : io.hash }

\* the environment in which no step of a call fails
IOOk == [hash |-> TRUE, extract |-> TRUE, index |-> TRUE, fp |-> <<"write", HashLen>>]

----------------------------------------------------------------------------
(* Fingerprint store: main.go *)

\* the size test with >= for >
TooLarge_AtLimit(size) == size >= MaxSize

\* the size test of IndexFile and ShouldProcess: fi.Size() > 1000000
TooLarge(size) == size > MaxSize

\* HashFile: the sha256 of the file's bytes; (nil, err) when the file
\* cannot be opened or read
HashFile(c, ok) ==
    IF ok THEN [h |-> Digest(c), err |-> FALSE] ELSE [h |-> <<>>, err |-> TRUE]

\* CheckHash without its length test: the loop stops at the shorter length
CheckHash_NoLengthTest(store, file, hash) ==
    IF file \notin DOMAIN store THEN FALSE
    ELSE LET bs == store[file]
         IN \A i \in 1..Len(bs) : i <= Len(hash) => bs[i] = hash[i]

\* CheckHash without the loop over the bytes
CheckHash_LengthOnly(store, file, hash) ==
    IF file \notin DOMAIN store THEN FALSE
    ELSE Len(store[file]) = Len(hash)

\* CheckHash with its length test inverted (== for !=)
CheckHash_LenTestInverted(store, file, hash) ==
    IF file \notin DOMAIN store THEN FALSE
    ELSE LET bs == store[file]
         IN IF Len(bs) = Len(hash) THEN FALSE
            ELSE \A i \in 1..Len(bs) : bs[i] = hash[i]

\* CheckHash: false when no entry exists, false on a length mismatch,
\* false at the first differing byte, true otherwise (both callers drop
\* the error result)
CheckHash(store, file, hash) ==
    IF file \notin DOMAIN store THEN FALSE
    ELSE LET bs == store[file]
         IN IF Len(bs) # Len(hash) THEN FALSE
            ELSE \A i \in 1..Len(bs) : bs[i] = hash[i]

\* a fingerprint write that reports a failure after the whole entry is on
\* disk
WriteEntry_ErrorAfterFullWrite(dirs, store, file, hash, out) ==
    IF <<>> \notin dirs /\ out = <<"mkdir">>
    THEN [dirs |-> dirs, fp |-> store, err |-> TRUE]
    ELSE LET made == dirs \cup {<<>>}
         IN IF out = <<"create">> \/ Parent(file) \notin made
            THEN [dirs |-> made, fp |-> store, err |-> TRUE]
            ELSE [dirs |-> made,
                  fp |-> MapPut(store, file, hash),
                  err |-> out[1] = "write" /\ out[2] < Len(hash)]

\* CheckHash with its error result: (false, nil) when the entry does not
\* exist, (false, err) when it exists and cannot be opened or read, the
\* comparison otherwise
CheckHashRun(store, file, hash, readable) ==
    IF file \in DOMAIN store /\ ~readable
    THEN [ok |-> FALSE, err |-> TRUE]
    ELSE [ok |-> CheckHash(store, file, hash), err |-> FALSE]

\* the fingerprint write with the entry opened without truncation: the
\* bytes beyond the digest's length stay
WriteEntry_NoTruncate(dirs, store, file, hash, out) ==
    IF <<>> \notin dirs /\ out = <<"mkdir">>
    THEN [dirs |-> dirs, fp |-> store, err |-> TRUE]
    ELSE LET made == dirs \cup {<<>>}
         IN IF out = <<"create">> \/ Parent(file) \notin made
            THEN [dirs |-> made, fp |-> store, err |-> TRUE]
            ELSE LET n == IF out[1] = "write" /\ out[2] < Len(hash)
                          THEN out[2] ELSE Len(hash)
                     old == IF file \in DOMAIN store THEN store[file] ELSE <<>>
                 IN [dirs |-> made,
                     fp |-> MapPut(store, file,
                                   SubSeq(hash, 1, n) \o SubSeq(old, n + 1, Len(old))),
                     err |-> n < Len(hash)]

\* the tail of WriteFileHash and of finishFile: MkdirAll of the hash
\* location when it is absent, os.Create of the entry (truncating it; it
\* fails when the entry's directory does not exist), then fd.Write
WriteEntry(dirs, store, file, hash, out) ==
    IF <<>> \notin dirs /\ out = <<"mkdir">>
    THEN [dirs |-> dirs, fp |-> store, err |-> TRUE]
    ELSE LET made == dirs \cup {<<>>}
         IN IF out = <<"create">> \/ Parent(file) \notin made
            THEN [dirs |-> made, fp |-> store, err |-> TRUE]
            ELSE LET n == IF out[1] = "write" /\ out[2] < Len(hash)
                          THEN out[2] ELSE Len(hash)
                 IN [dirs |-> made,
                     fp |-> MapPut(store, file, SubSeq(hash, 1, n)),
                     err |-> n < Len(hash)]

\* WriteFileHash opening the entry for appending instead of os.Create
WriteFileHash_Appends(dirs, store, file, hash, out) ==
    LET w == WriteEntry(dirs, store, file, hash, out)
    IN IF w.err \/ file \notin DOMAIN store THEN w
       ELSE [w EXCEPT !.fp = MapPut(store, file, store[file] \o hash)]

WriteFileHash(dirs, store, file, hash, out) ==
    WriteEntry(dirs, store, file, hash, out)

----------------------------------------------------------------------------
(* Search index: bleveIndex.Index, documents keyed by FileName *)

\* Index with the error of the engine dropped
Index_ErrorDropped(idx, data, ok) ==
    IF ok THEN [idx |-> MapPut(idx, data.FileName, data), err |-> FALSE]
    ELSE [idx |-> idx, err |-> FALSE]

Index(idx, data, ok) ==
    IF ok THEN [idx |-> MapPut(idx, data.FileName, data), err |-> FALSE]
    ELSE [idx |-> idx, err |-> TRUE]

\* a translator whose error is dropped by its caller
Translate_ErrorDropped(ft, c, ok) ==
    IF ok THEN [text |-> [by |-> ft, of |-> c], err |-> FALSE]
    ELSE [text |-> [by |-> ft, of |-> 0], err |-> FALSE]

\* a FileTranslator applied to a file: the text it returns is tagged with
\* the translator that produced it and the content it was produced from
Translate(ft, c, ok) ==
    IF ok THEN [text |-> [by |-> ft, of |-> c], err |-> FALSE]
    ELSE [text |-> [by |-> ft, of |-> 0], err |-> TRUE]

FileData(p, mt, text) ==
    [FullPath |-> Clean(p), FileName |-> Base(p), MimeType |-> mt, Text |-> text]

NoData == [FullPath |-> <<>>, FileName |-> <<>>, MimeType |-> <<>>,
           Text |-> [by |-> "none", of |-> 0]]

----------------------------------------------------------------------------
(* main.go: ProcessFile and IndexFile *)

\* ProcessFile: the switch over the mime category
ProcessFile(p, c, ok) ==
    LET ext == Ext(p)
        mt == TypeByExtension(ext)
        cat == Category(mt)
        ft == CASE cat = <<"text">> -> "getPlainTextContent"
                [] cat = <<"application">> /\ ext = ".pdf" -> "ocrImageFile"
                [] cat = <<"image">> -> "ocrImageFile"
                [] OTHER -> "none"
    IN IF mt = <<>>
       THEN [err |-> "type", named |-> <<>>, fd |-> NoData, handler |-> "none",
             trace |-> <<"type">>]
       ELSE IF ft = "none"
       THEN [err |-> "unsupported", named |-> mt, fd |-> NoData, handler |-> "none",
             trace |-> <<"type", "resolve">>]
       ELSE LET t == Translate(ft, c, ok)
            IN IF t.err
               THEN [err |-> "extract", named |-> <<>>, fd |-> NoData, handler |-> ft,
                     trace |-> <<"type", "resolve", "extract">>]
               ELSE [err |-> "none", named |-> <<>>, fd |-> FileData(p, mt, t.text),
                     handler |-> ft,
                     trace |-> <<"type", "resolve", "extract">>]

\* the result of one processing call: the stores after it and what it did
\* (err: where it stopped; named: the mime type its error message names;
\* skipped: it took the "Already indexed" path; handler: the translator it
\* invoked; wrote: it called the fingerprint write; trace: its steps in order)
Outcome(dirs, store, idx, err, named, skipped, handler, wrote, trace) ==
    [dirs |-> dirs, fp |-> store, idx |-> idx, err |-> err, named |-> named,
     skipped |-> skipped, handler |-> handler, wrote |-> wrote, trace |-> trace]

\* IndexFile with the fingerprint written before the index write
IndexFileRun_CommitFirst(p, c, io, dirs, store, idx) ==
    IF TooLarge(SizeOf(c))
    THEN Outcome(dirs, store, idx, "tooLarge", <<>>, FALSE, "none", FALSE, <<"stat">>)
    ELSE
    LET h == HashFile(c, io.hash).h
        t1 == <<"stat", "hash", "check">>
    IN IF CheckHash(store, Base(p), h)
       THEN Outcome(dirs, store, idx, "none", <<>>, TRUE, "none", FALSE, t1)
       ELSE
       LET pf == ProcessFile(p, c, io.extract)
           t2 == t1 \o pf.trace
       IN IF pf.err # "none"
          THEN Outcome(dirs, store, idx, pf.err, pf.named, FALSE, pf.handler, FALSE, t2)
          ELSE
          LET w == WriteFileHash(dirs, store, pf.fd.FileName, h, io.fp)
              ix == Index(idx, pf.fd, io.index)
          IN IF w.err
             THEN Outcome(w.dirs, w.fp, idx, "fpwrite", <<>>, FALSE, pf.handler, TRUE,
                          t2 \o <<"fpwrite">>)
             ELSE Outcome(w.dirs, w.fp, ix.idx, IF ix.err THEN "index" ELSE "none",
                          <<>>, FALSE, pf.handler, TRUE, t2 \o <<"fpwrite", "index">>)

\* IndexFile: size test, digest, fingerprint check, ProcessFile, index
\* write, fingerprint write; every failure returns at once.  The file is
\* read twice: by os.Stat and HashFile, when it holds content c, and by the
\* translator inside ProcessFile, when it holds content ce.  The digest h
\* of the first reading is the one written at the end.
IndexFileReads(p, c, ce, io, dirs, store, idx) ==
    IF TooLarge(SizeOf(c))
    THEN Outcome(dirs, store, idx, "tooLarge", <<>>, FALSE, "none", FALSE, <<"stat">>)
    ELSE
    LET h == HashFile(c, io.hash).h
        t1 == <<"stat", "hash", "check">>
    IN IF CheckHash(store, Base(p), h)
       THEN Outcome(dirs, store, idx, "none", <<>>, TRUE, "none", FALSE, t1)
       ELSE
       LET pf == ProcessFile(p, ce, io.extract)
           t2 == t1 \o pf.trace
       IN IF pf.err # "none"
          THEN Outcome(dirs, store, idx, pf.err, pf.named, FALSE, pf.handler, FALSE, t2)
          ELSE
          LET ix == Index(idx, pf.fd, io.index)
          IN IF ix.err
             THEN Outcome(dirs, store, idx, "index", <<>>, FALSE, pf.handler, FALSE,
                          t2 \o <<"index">>)
             ELSE
             LET w == WriteFileHash(dirs, store, pf.fd.FileName, h, io.fp)
             IN Outcome(w.dirs, w.fp, ix.idx, IF w.err THEN "fpwrite" ELSE "none",
                        <<>>, FALSE, pf.handler, TRUE, t2 \o <<"index", "fpwrite">>)

\* IndexFile submitting to the index a second time when the first
\* submission fails
IndexFileRun_RetriesIndex(p, c, io, dirs, store, idx) ==
    LET o == IndexFileReads(p, c, c, io, dirs, store, idx)
        again == IndexFileReads(p, c, c, [io EXCEPT !.index = TRUE], dirs, store, idx)
    IN IF o.err # "index" THEN o
       ELSE [again EXCEPT !.trace =
                o.trace \o SubSeq(again.trace, Len(o.trace), Len(again.trace))]

\* IndexFile on a file that holds content c throughout the call
IndexFileRun(p, c, io, dirs, store, idx) ==
    IndexFileReads(p, c, c, io, dirs, store, idx)

----------------------------------------------------------------------------
(* The processor: registry, ShouldProcess, Process, finishFile *)

\* the translators a caller may register
Translators == {"ftA", "ftB"}

\* the keys Register is called with: a built-in key, a category and a full type
RegKeys == { <<"text">>, <<"application">>, <<"application", "wasm">> }

\* registerDefaults with the pdf entry under the category "application"
registerDefaults_ApplicationCategory ==
    [k \in { <<"text">>, <<"image">>, <<"application", "javascript">>,
             <<"application">> } |->
        CASE k = <<"text">> -> "getPlainTextContent"
          [] k = <<"image">> -> "ocrImageFile"
          [] k = <<"application", "javascript">> -> "getPlainTextContent"
          [] OTHER -> "ocrImageFile"]

\* registerDefaults
registerDefaults ==
    [k \in { <<"text">>, <<"image">>, <<"application", "javascript">>,
             <<"application", "pdf">> } |->
        CASE k = <<"text">> -> "getPlainTextContent"
          [] k = <<"image">> -> "ocrImageFile"
          [] k = <<"application", "javascript">> -> "getPlainTextContent"
          [] OTHER -> "ocrImageFile"]

\* Register without the test for an existing key
RegisterRun_Overwrite(registry, mime, ft) ==
    [reg |-> MapPut(registry, mime, ft), err |-> FALSE]

\* Register building the table anew from the defaults and the new key,
\* which forgets the keys registered before
RegisterRun_StartsOver(registry, mime, ft) ==
    IF mime \in DOMAIN registry
    THEN [reg |-> registry, err |-> TRUE]
    ELSE [reg |-> MapPut(registerDefaults, mime, ft), err |-> FALSE]

\* Register: an error and no change when the key exists
RegisterRun(registry, mime, ft) ==
    IF mime \in DOMAIN registry
    THEN [reg |-> registry, err |-> TRUE]
    ELSE [reg |-> MapPut(registry, mime, ft), err |-> FALSE]

\* the lookup with the category tried first
Lookup_CategoryFirst(registry, mt) ==
    IF Category(mt) \in DOMAIN registry
    THEN [exists |-> TRUE, ft |-> registry[Category(mt)]]
    ELSE IF mt \in DOMAIN registry
    THEN [exists |-> TRUE, ft |-> registry[mt]]
    ELSE [exists |-> FALSE, ft |-> "none"]

\* the lookup of Process: the full type first, the category second
Lookup(registry, mt) ==
    IF mt \in DOMAIN registry
    THEN [exists |-> TRUE, ft |-> registry[mt]]
    ELSE IF Category(mt) \in DOMAIN registry
    THEN [exists |-> TRUE, ft |-> registry[Category(mt)]]
    ELSE [exists |-> FALSE, ft |-> "none"]

hashFile(c, ok) == HashFile(c, ok)

checkHash(store, file, hash) == CheckHash(store, file, hash)

\* finishFile: hash the file again, then write the entry named by its argument
finishFile(dirs, store, file, c, ok, out) ==
    LET hf == hashFile(c, ok)
    IN IF hf.err THEN [dirs |-> dirs, fp |-> store, err |-> TRUE]
       ELSE WriteEntry(dirs, store, file, hf.h, out)

\* ShouldProcess: the size check, the digest and the fingerprint check
ShouldProcess(p, c, store, ok) ==
    IF TooLarge(SizeOf(c))
    THEN [should |-> FALSE, err |-> "tooLarge", trace |-> <<"stat">>]
    ELSE LET hf == hashFile(c, ok)
         IN IF hf.err
            THEN [should |-> FALSE, err |-> "hash", trace |-> <<"stat", "hash">>]
            ELSE IF checkHash(store, Base(p), hf.h)
            THEN [should |-> FALSE, err |-> "none", trace |-> <<"stat", "hash", "check">>]
            ELSE [should |-> TRUE, err |-> "none", trace |-> <<"stat", "hash", "check">>]

\* Process: type, lookup, translator, index write, finishFile(fd.FullPath).
\* The file is read twice: by the translator, when it holds content ce, and
\* by the hashFile of finishFile, when it holds content c2.
ProcessReads(p, ce, c2, io, dirs, store, idx, registry) ==
    LET mt == TypeByExtension(Ext(p))
        lk == Lookup(registry, mt)
    IN IF mt = <<>>
       THEN Outcome(dirs, store, idx, "type", <<>>, FALSE, "none", FALSE, <<"type">>)
       ELSE IF ~lk.exists
       THEN Outcome(dirs, store, idx, "unsupported", mt, FALSE, "none", FALSE,
                    <<"type", "resolve">>)
       ELSE
       LET t == Translate(lk.ft, ce, io.extract)
           t1 == <<"type", "resolve", "extract">>
       IN IF t.err
          THEN Outcome(dirs, store, idx, "extract", <<>>, FALSE, lk.ft, FALSE, t1)
          ELSE
          LET fd == FileData(p, mt, t.text)
              ix == Index(idx, fd, io.index)
          IN IF ix.err
             THEN Outcome(dirs, store, idx, "index", <<>>, FALSE, lk.ft, FALSE,
                          t1 \o <<"index">>)
             ELSE
             LET w == finishFile(dirs, store, fd.FullPath, c2, io.hash, io.fp)
             IN Outcome(w.dirs, w.fp, ix.idx, IF w.err THEN "fpwrite" ELSE "none",
                        <<>>, FALSE, lk.ft, TRUE, t1 \o <<"index", "fpwrite">>)

\* Process on a file that holds content c throughout the call
Process(p, c, io, dirs, store, idx, registry) ==
    ProcessReads(p, c, c, io, dirs, store, idx, registry)

----------------------------------------------------------------------------
(* State machine.  The content of a file is read from disk by each call, *)
(* and other programs may change it between two calls: it is an input of *)
(* the call.                                                              *)

\* the index write of a call succeeded
IndexWritten(o) == o.err # "index" /\ \E i \in 1..Len(o.trace) : o.trace[i] = "index"

\* the hash location with the directories of the source tree below it
HashTree == { <<>> } \cup { Parent(Clean(p)) : p \in Paths }

\* no direct call of the fingerprint check was made yet
NoCheck == [asked |-> FALSE, file |-> <<>>, hash |-> <<>>, readable |-> TRUE,
            found |-> FALSE, read |-> <<>>, ok |-> FALSE, err |-> FALSE]

\* no batch: no run of main over a list of files is modelled
NoFlags == [help |-> FALSE, query |-> FALSE, index |-> FALSE]

NoBatch == [todo |-> <<>>, tried |-> <<>>, alive |-> TRUE,
            flags |-> NoFlags, mode |-> "none"]

\* no walk of a directory is under way
NoWalk == [root |-> <<>>, tree |-> {}, todo |-> <<>>, called |-> <<>>, mode |-> "none"]

\* no calls of IndexFile run at the same time
NoCalls == [file |-> <<>>, content |-> 0,
            from |-> [dirs |-> {}, fp |-> <<>>, idx |-> <<>>], at |-> <<>>]

\* no fingerprint write is in flight
NoWrite == [busy |-> FALSE, file |-> <<>>, hash |-> <<>>]

Init ==
    /\ version \in Versions
    /\ hashDirs \in { {}, HashTree }
    /\ fp = EmptyMap
    /\ index = EmptyMap
    /\ reg = registerDefaults
    /\ first = registerDefaults
    /\ lastCheck = NoCheck
    /\ writing = NoWrite
    /\ batch = NoBatch
    /\ calls = NoCalls
    /\ walk = NoWalk

\* the stores after a processing call with outcome o
Apply(o) ==
    /\ hashDirs' = o.dirs
    /\ fp' = o.fp
    /\ index' = o.idx

\* main.go: IndexFile(file, hashDir, index) on a file holding content c
IndexFile(p, c, io) ==
    /\ version = "main"
    /\ Apply(IndexFileRun(p, c, io, hashDirs, fp, index))
    /\ UNCHANGED <<version, reg, first, lastCheck, writing, batch, calls, walk>>

\* processor: Process(file) on a file holding content c.  ShouldProcess
\* writes nothing and Process does not call it: whether a caller asks
\* first is the caller's business, so Process is enabled either way.
ProcessorProcess(p, c, io) ==
    /\ version = "processor"
    /\ Apply(Process(p, c, io, hashDirs, fp, index, reg))
    /\ UNCHANGED <<version, reg, first, lastCheck, writing, batch, calls, walk>>

\* processor: Register(mime, ft)
Register(mime, ft) ==
    /\ version = "processor"
    /\ reg' = RegisterRun(reg, mime, ft).reg
    /\ first' = IF mime \in DOMAIN first THEN first
                ELSE [k \in DOMAIN first \cup {mime} |->
                         IF k \in DOMAIN first THEN first[k] ELSE ft]
    /\ UNCHANGED <<version, hashDirs, fp, index, lastCheck, writing, batch, calls, walk>>

Next ==
    \/ \E p \in MainPaths, c \in Contents, io \in IOBase : IndexFile(p, c, io)
    \/ \E p \in ProcessorPaths, c \in Contents, io \in IOBase : ProcessorProcess(p, c, io)
    \/ \E mime \in RegKeys, ft \in Translators : Register(mime, ft)

Spec == Init /\ [][Next]_vars

----------------------------------------------------------------------------
(* The fingerprint check on its own: CheckHash / checkHash called on a    *)
(* hash directory holding any entry (absent, shorter than a digest, of a  *)
(* digest's length, longer), which other programs and earlier versions    *)
(* may have left there.                                                    *)

\* the bytes of the digests
Bytes == UNION { { Digest(c)[i] : i \in 1..HashLen } : c \in Contents }

\* the byte sequences of length 0 .. n over Bytes
RECURSIVE SeqsUpTo(_)
SeqsUpTo(n) ==
    IF n = 0 THEN { <<>> }
    ELSE LET shorter == SeqsUpTo(n - 1)
         IN shorter \cup { Append(bs, b) : bs \in { x \in shorter : Len(x) = n - 1 }, b \in Bytes }

\* what an entry may hold: up to one byte more than a digest
Entries == SeqsUpTo(HashLen + 1)

\* the keys the check is called with
StoreKeys == { Base(p) : p \in Paths }

\* the stores the check is applied to: empty, or one entry
StoreInputs ==
    { EmptyMap } \cup { [k \in {key} |-> bs] : key \in StoreKeys, bs \in Entries }

InitStore ==
    /\ version \in Versions
    /\ hashDirs = HashTree
    /\ fp \in StoreInputs
    /\ index = EmptyMap
    /\ reg = registerDefaults
    /\ first = registerDefaults
    /\ lastCheck = NoCheck
    /\ writing = NoWrite
    /\ batch = NoBatch
    /\ calls = NoCalls
    /\ walk = NoWalk

\* CheckHash(file, hash, hashDir) / p.checkHash(file, hash), the hash being
\* the digest of content c
Check(file, c, readable) ==
    /\ lastCheck' =
          LET r == IF version = "main"
                   THEN CheckHashRun(fp, file, HashFile(c, TRUE).h, readable)
                   ELSE CheckHashRun(fp, file, hashFile(c, TRUE).h, readable)
              found == file \in DOMAIN fp /\ readable
          IN [asked |-> TRUE, file |-> file, hash |-> Digest(c),
              readable |-> readable, found |-> found,
              read |-> IF found THEN fp[file] ELSE <<>>,
              ok |-> r.ok, err |-> r.err]
    /\ UNCHANGED <<version, hashDirs, fp, index, reg, first, writing, batch, calls, walk>>

NextStore ==
    \E file \in StoreKeys, c \in Contents, readable \in BOOLEAN : Check(file, c, readable)

SpecStore == InitStore /\ [][NextStore]_vars

----------------------------------------------------------------------------
(* The fingerprint write on its own: WriteFileHash / finishFile called on *)
(* a hash directory that is absent, or present and holding any entry.     *)

\* the keys the write is called with: base names (IndexFile) and cleaned
\* paths (Process)
CommitKeys == StoreKeys \cup { Clean(p) : p \in Paths }

InitCommit ==
    /\ version \in Versions
    /\ \/ hashDirs = {} /\ fp = EmptyMap
       \/ hashDirs = HashTree /\ fp \in StoreInputs
    /\ index = EmptyMap
    /\ reg = registerDefaults
    /\ first = registerDefaults
    /\ lastCheck = NoCheck
    /\ writing = NoWrite
    /\ batch = NoBatch
    /\ calls = NoCalls
    /\ walk = NoWalk

\* the fingerprint write of the running generation, of the digest of the
\* content c the file holds
CommitRun(dirs, store, file, c, out) ==
    IF version = "main"
    THEN WriteFileHash(dirs, store, file, HashFile(c, TRUE).h, out)
    ELSE finishFile(dirs, store, file, c, TRUE, out)

\* WriteFileHash(file, hash, hashDir) / p.finishFile(file), on the entry
\* the store holds or on an empty store (as in StoreInputs, one entry is
\* followed at a time)
Commit(file, c, out) ==
    /\ DOMAIN fp \subseteq {file}
    /\ LET w == CommitRun(hashDirs, fp, file, c, out)
       IN hashDirs' = w.dirs /\ fp' = w.fp
    /\ UNCHANGED <<version, index, reg, first, lastCheck, writing, batch, calls, walk>>

NextCommit ==
    \E file \in CommitKeys, c \in Contents, out \in FpOutcomes : Commit(file, c, out)

SpecCommit == InitCommit /\ [][NextCommit]_vars

----------------------------------------------------------------------------
(* The fingerprint write step by step, with the check of another process  *)
(* or goroutine running between its steps: WriteFileHash / finishFile     *)
(* call os.Create, which truncates the entry, and then fd.Write.          *)

\* the stores a write starts from: empty, or one complete entry
WholeStores ==
    { EmptyMap } \cup { [k \in {key} |-> Digest(c)] : key \in StoreKeys, c \in Contents }

InitWrite ==
    /\ version \in Versions
    /\ hashDirs = HashTree
    /\ fp \in WholeStores
    /\ index = EmptyMap
    /\ reg = registerDefaults
    /\ first = registerDefaults
    /\ lastCheck = NoCheck
    /\ writing = NoWrite
    /\ batch = NoBatch
    /\ calls = NoCalls
    /\ walk = NoWalk

\* os.Create(filepath.Join(hashDir, file)): the entry exists and is empty
WriteCreate(file, c) ==
    /\ ~writing.busy
    /\ fp' = MapPut(fp, file, <<>>)
    /\ writing' = [busy |-> TRUE, file |-> file, hash |-> Digest(c)]
    /\ UNCHANGED <<version, hashDirs, index, reg, first, lastCheck, batch, calls, walk>>

\* fd.Write(hash), and the deferred fd.Close
WriteBytes ==
    /\ writing.busy
    /\ fp' = MapPut(fp, writing.file, writing.hash)
    /\ writing' = NoWrite
    /\ UNCHANGED <<version, hashDirs, index, reg, first, lastCheck, batch, calls, walk>>

NextWrite ==
    \/ \E file \in StoreKeys, c \in Contents : WriteCreate(file, c)
    \/ WriteBytes
    \/ \E file \in StoreKeys, c \in Contents, readable \in BOOLEAN : Check(file, c, readable)

SpecWrite == InitWrite /\ [][NextWrite]_vars

----------------------------------------------------------------------------
(* One run of main.go in index mode: the loop of main over its arguments, *)
(* IndexFile on each, from the point where the loop is entered.  The      *)
(* environment decides, per file, what os.Stat gives in main and in       *)
(* IndexFile and whether Tesseract initialises.                           *)

\* the longest argument list
MaxBatch == 2

\* the files of a batch: a text file, a file of an unhandled type and a
\* pdf (which goes to ocrImageFile)
BatchPaths == { <<".", "notes.org">>, <<"a", "app.wasm">>, <<".", "scan.pdf">> }

RECURSIVE ListsUpTo(_)
ListsUpTo(n) ==
    IF n = 0 THEN { <<>> }
    ELSE LET shorter == ListsUpTo(n - 1)
         IN shorter \cup { Append(l, p) : l \in { x \in shorter : Len(x) = n - 1 },
                                          p \in BatchPaths }

\* what happens to one file of the batch outside IndexFile's own error
\* returns: os.Stat in main ("ok", "notexist", or "error": another error),
\* os.Stat in IndexFile (the file may have vanished since), gts.NewTess
BatchEnv ==
    { env \in [stat : {"ok", "notexist", "error"}, stat2 : BOOLEAN, tess : BOOLEAN] :
        /\ env.stat # "ok" => env.stat2
        /\ ~env.stat2 => env.tess }

\* one iteration of the loop of main: what it does to the stores, and
\* whether the process ends in it.  "continue" on a file that does not
\* exist; fi.IsDir() on the nil FileInfo of any other Stat error: a nil
\* dereference, the process panics; in IndexFile fi.Size() on the nil
\* FileInfo of a failed Stat: the same; in ocrImageFile log.Fatalf when
\* gts.NewTess fails: the process exits.
MainLoopBody(p, c, io, env, dirs, store, idx) ==
    LET same == [dirs |-> dirs, fp |-> store, idx |-> idx]
    IN IF env.stat = "notexist"
       THEN same @@ [called |-> FALSE, fatal |-> FALSE, err |-> "notexist"]
       ELSE IF env.stat = "error"
       THEN same @@ [called |-> FALSE, fatal |-> TRUE, err |-> "stat"]
       ELSE IF ~env.stat2
       THEN same @@ [called |-> TRUE, fatal |-> TRUE, err |-> "stat"]
       ELSE LET o == IndexFileRun(p, c, io, dirs, store, idx)
                mt == TypeByExtension(Ext(p))
                ocr == \/ Category(mt) = <<"image">>
                       \/ Category(mt) = <<"application">> /\ Ext(p) = ".pdf"
                extracting == \E i \in 1..Len(o.trace) : o.trace[i] = "extract"
            IN IF extracting /\ ocr /\ ~env.tess
               THEN same @@ [called |-> TRUE, fatal |-> TRUE, err |-> "tess"]
               ELSE [dirs |-> o.dirs, fp |-> o.fp, idx |-> o.idx,
                     called |-> TRUE, fatal |-> FALSE, err |-> o.err]

InitBatch ==
    /\ version = "main"
    /\ hashDirs \in { {}, HashTree }
    /\ fp = EmptyMap
    /\ index = EmptyMap
    /\ reg = registerDefaults
    /\ first = registerDefaults
    /\ lastCheck = NoCheck
    /\ writing = NoWrite
    /\ calls = NoCalls
    /\ walk = NoWalk
    /\ batch \in { [todo |-> l, tried |-> <<>>, alive |-> TRUE,
                     flags |-> NoFlags, mode |-> "index"] : l \in ListsUpTo(MaxBatch) }

\* main: one iteration of "for _, file := range flag.Args()"
MainLoopStep(c, io, env) ==
    /\ batch.mode = "index"
    /\ batch.alive
    /\ batch.todo # <<>>
    /\ LET b == MainLoopBody(Head(batch.todo), c, io, env, hashDirs, fp, index)
       IN /\ hashDirs' = b.dirs
          /\ fp' = b.fp
          /\ index' = b.idx
          /\ batch' = [batch EXCEPT !.todo = Tail(batch.todo),
                                    !.tried = Append(batch.tried, b.err),
                                    !.alive = ~b.fatal]
    /\ UNCHANGED <<version, reg, first, lastCheck, writing, calls, walk>>

NextBatch ==
    \E c \in Contents, io \in IOBase, env \in BatchEnv : MainLoopStep(c, io, env)

SpecBatch == InitBatch /\ [][NextBatch]_vars

----------------------------------------------------------------------------
(* The start of main.go: the flags decide what the run does.              *)

\* the command lines: any combination of --help, --query and --index
FlagSets == [help : BOOLEAN, query : BOOLEAN, index : BOOLEAN]

\* main up to the mode it enters: "help" (PrintDefaults, exit 0), "usage"
\* ("One of --query or --index must be passed", exit 1), "fatal" (NewIndex
\* failed), "query" or "index"
MainMode(flags, indexOpens) ==
    IF flags.help THEN "help"
    ELSE IF ~flags.query \/ ~flags.index THEN "usage"
    ELSE IF ~indexOpens THEN "fatal"
    ELSE IF flags.query THEN "query"
    ELSE IF flags.index THEN "index"
    ELSE "return"

InitMain ==
    /\ version = "main"
    /\ hashDirs \in { {}, HashTree }
    /\ fp = EmptyMap
    /\ index = EmptyMap
    /\ reg = registerDefaults
    /\ first = registerDefaults
    /\ lastCheck = NoCheck
    /\ writing = NoWrite
    /\ calls = NoCalls
    /\ walk = NoWalk
    /\ batch \in { [todo |-> l, tried |-> <<>>, alive |-> TRUE,
                     flags |-> f, mode |-> "start"] :
                        l \in ListsUpTo(MaxBatch), f \in FlagSets }

\* main from flag.Parse() to the mode it enters
MainStart(indexOpens) ==
    /\ batch.mode = "start"
    /\ LET m == MainMode(batch.flags, indexOpens)
       IN batch' = [batch EXCEPT !.mode = m,
                                 !.alive = m \in {"query", "index"}]
    /\ UNCHANGED <<version, hashDirs, fp, index, reg, first, lastCheck, writing, calls, walk>>

\* main in query mode: index.Query(flag.Args()), print or exit 1, return
MainQuery(ok) ==
    /\ batch.mode = "query"
    /\ batch.alive
    /\ batch' = [batch EXCEPT !.todo = <<>>,
                              !.tried = <<IF ok THEN "query" ELSE "queryError">>,
                              !.alive = FALSE]
    /\ UNCHANGED <<version, hashDirs, fp, index, reg, first, lastCheck, writing, calls, walk>>

\* (the loop of index mode is MainLoopStep, under SpecBatch)
NextMain ==
    \/ \E indexOpens \in BOOLEAN : MainStart(indexOpens)
    \/ \E ok \in BOOLEAN : MainQuery(ok)

SpecMain == InitMain /\ [][NextMain]_vars

----------------------------------------------------------------------------
(* Calls during which another program rewrites the file.  A call opens   *)
(* the file more than once, and each opening reads what the file holds    *)
(* at that moment.                                                         *)

\* main.go: IndexFile(file, hashDir, index) on a file that holds c when it
\* is hashed and ce when the translator reads it
IndexFileEdited(p, c, ce, io) ==
    /\ version = "main"
    /\ Apply(IndexFileReads(p, c, ce, io, hashDirs, fp, index))
    /\ UNCHANGED <<version, reg, first, lastCheck, writing, batch, calls, walk>>

\* processor: Process(file) on a file that holds ce when the translator
\* reads it and c2 when finishFile hashes it
ProcessEdited(p, ce, c2, io) ==
    /\ version = "processor"
    /\ Apply(ProcessReads(p, ce, c2, io, hashDirs, fp, index, reg))
    /\ UNCHANGED <<version, reg, first, lastCheck, writing, batch, calls, walk>>

NextEdit ==
    \/ \E p \in MainPaths, c, ce \in Contents, io \in IOBase :
          IndexFileEdited(p, c, ce, io)
    \/ \E p \in ProcessorPaths, ce, c2 \in Contents, io \in IOBase :
          ProcessEdited(p, ce, c2, io)
    \/ \E mime \in RegKeys, ft \in Translators : Register(mime, ft)

SpecEdit == Init /\ [][NextEdit]_vars

----------------------------------------------------------------------------
(* Two calls of IndexFile on the same file at the same time (two runs of  *)
(* the program over the same tree).  Each call goes through the           *)
(* statements of IndexFile one at a time; the other call may run between  *)
(* any two of them, os.Create and fd.Write of WriteFileHash included.     *)
(* The file keeps its content and no step fails.                          *)

Callers == {1, 2}

\* fd.Write on a descriptor opened for appending
WriteAtStart_Appends(old, h) == old \o h

\* fd.Write(hash) on the descriptor os.Create returned: the bytes go to
\* offset 0 of the entry as it is at that moment, over what is there
WriteAtStart(old, h) == h \o SubSeq(old, Len(h) + 1, Len(old))

\* the stores the two calls start from: empty ones (the hash location
\* absent or present), or those an earlier run of IndexFile on the same
\* file left, whatever the file held then
ConcStarts(p) ==
    LET fresh == { [dirs |-> d, fp |-> EmptyMap, idx |-> EmptyMap] : d \in { {}, HashTree } }
    IN fresh \cup
       { LET o == IndexFileRun(p, c0, IOOk, st.dirs, st.fp, st.idx)
         IN [dirs |-> o.dirs, fp |-> o.fp, idx |-> o.idx] :
           st \in fresh, c0 \in Contents }

\* a call before its first statement
CallStart == [pc |-> "start", h |-> <<>>, fd |-> NoData, skipped |-> FALSE]

InitConc ==
    /\ version = "main"
    /\ reg = registerDefaults
    /\ first = registerDefaults
    /\ lastCheck = NoCheck
    /\ writing = NoWrite
    /\ batch = NoBatch
    /\ walk = NoWalk
    /\ \E p \in MainPaths, c \in Contents :
        \E st \in ConcStarts(p) :
            /\ hashDirs = st.dirs
            /\ fp = st.fp
            /\ index = st.idx
            /\ calls = [file |-> p, content |-> c, from |-> st,
                        at |-> [i \in Callers |-> CallStart]]

\* call i moves on
Move(i, r) == calls' = [calls EXCEPT !.at[i] = r]

\* os.Stat and the size test, HashFile, CheckHash
CallCheck(i) ==
    LET me == calls.at[i]
        h == HashFile(calls.content, TRUE).h
    IN /\ me.pc = "start"
       /\ IF TooLarge(SizeOf(calls.content))
          THEN Move(i, [me EXCEPT !.pc = "done"])
          ELSE IF CheckHash(fp, Base(calls.file), h)
          THEN Move(i, [me EXCEPT !.pc = "done", !.h = h, !.skipped = TRUE])
          ELSE Move(i, [me EXCEPT !.pc = "extract", !.h = h])
       /\ UNCHANGED <<version, hashDirs, fp, index, reg, first, lastCheck, writing, batch, walk>>

\* ProcessFile
CallExtract(i) ==
    LET me == calls.at[i]
        pf == ProcessFile(calls.file, calls.content, TRUE)
    IN /\ me.pc = "extract"
       /\ IF pf.err # "none"
          THEN Move(i, [me EXCEPT !.pc = "done"])
          ELSE Move(i, [me EXCEPT !.pc = "index", !.fd = pf.fd])
       /\ UNCHANGED <<version, hashDirs, fp, index, reg, first, lastCheck, writing, batch, walk>>

\* index.Index(fd)
CallIndex(i) ==
    LET me == calls.at[i]
    IN /\ me.pc = "index"
       /\ index' = Index(index, me.fd, TRUE).idx
       /\ Move(i, [me EXCEPT !.pc = "create"])
       /\ UNCHANGED <<version, hashDirs, fp, reg, first, lastCheck, writing, batch, walk>>

\* WriteFileHash up to os.Create: MkdirAll when the hash location is
\* absent, then the entry exists and is empty
CallCreate(i) ==
    LET me == calls.at[i]
    IN /\ me.pc = "create"
       /\ hashDirs' = hashDirs \cup {<<>>}
       /\ fp' = MapPut(fp, me.fd.FileName, <<>>)
       /\ Move(i, [me EXCEPT !.pc = "write"])
       /\ UNCHANGED <<version, index, reg, first, lastCheck, writing, batch, walk>>

\* fd.Write(hash) of WriteFileHash, and the return of IndexFile
CallWrite(i) ==
    LET me == calls.at[i]
        key == me.fd.FileName
    IN /\ me.pc = "write"
       /\ fp' = MapPut(fp, key, WriteAtStart(fp[key], me.h))
       /\ Move(i, [me EXCEPT !.pc = "done"])
       /\ UNCHANGED <<version, hashDirs, index, reg, first, lastCheck, writing, batch, walk>>

NextConc ==
    \/ \E i \in Callers : CallCheck(i)
    \/ \E i \in Callers : CallExtract(i)
    \/ \E i \in Callers : CallIndex(i)
    \/ \E i \in Callers : CallCreate(i)
    \/ \E i \in Callers : CallWrite(i)

SpecConc == InitConc /\ [][NextConc]_vars

----------------------------------------------------------------------------
(* Calls on files that cannot always be read: HashFile / hashFile may     *)
(* fail (os.Open or io.Copy returns an error) while os.Stat succeeds.     *)

NextUnreadable ==
    \/ \E p \in MainPaths, c \in Contents, io \in IOAll : IndexFile(p, c, io)
    \/ \E p \in ProcessorPaths, c \in Contents, io \in IOAll : ProcessorProcess(p, c, io)
    \/ \E mime \in RegKeys, ft \in Translators : Register(mime, ft)

SpecUnreadable == Init /\ [][NextUnreadable]_vars

----------------------------------------------------------------------------
(* Calls on files whose name has no extension, or one that no type is     *)
(* known for.                                                              *)

UntypedPaths == { <<".", "Makefile">>, <<"a", "data.xyz">> }

NextUntyped ==
    \/ \E p \in MainPaths \cup UntypedPaths, c \in Contents, io \in IOBase :
          IndexFile(p, c, io)
    \/ \E p \in ProcessorPaths \cup UntypedPaths, c \in Contents, io \in IOBase :
          ProcessorProcess(p, c, io)
    \/ \E mime \in RegKeys, ft \in Translators : Register(mime, ft)

SpecUntyped == Init /\ [][NextUntyped]_vars

----------------------------------------------------------------------------
(* IndexDirectory: filepath.Walk over a directory tree.  Walk calls the   *)
(* function first on the root, as it was spelled by the caller, then on   *)
(* the entries of each directory in lexical order; the function calls     *)
(* IndexFile on what is not a directory.                                   *)

\* the defaults of the flags index_location and hash_location
IndexLocation == <<"index.bleve">>

HashLocation == <<".indexed_files">>

\* the spellings of the directory handed to IndexDirectory
WalkRoots == { <<".">>, <<"docs">>, <<".notes">> }

\* what may lie below the root: a file, a directory with a file, a
\* dot-directory with a file, and a directory called index.bleve with a file
WalkUniverse ==
    { [rel |-> <<"notes.org">>, dir |-> FALSE],
      [rel |-> <<"sub">>, dir |-> TRUE],
      [rel |-> <<"sub", "app.wasm">>, dir |-> FALSE],
      [rel |-> <<".git">>, dir |-> TRUE],
      [rel |-> <<".git", "notes.org">>, dir |-> FALSE],
      [rel |-> <<"index.bleve">>, dir |-> TRUE],
      [rel |-> <<"index.bleve", "notes.org">>, dir |-> FALSE] }

\* the trees: every entry lies in a directory of the tree
WalkTrees ==
    { t \in SUBSET WalkUniverse :
        \A e \in t : Len(e.rel) > 1 =>
            [rel |-> SubSeq(e.rel, 1, Len(e.rel) - 1), dir |-> TRUE] \in t }

\* the names that begin with "."
DotNames == { ".", ".git", ".notes", ".indexed_files" }

\* strings.HasPrefix(name, ".")
HasDotPrefix(name) == name \in DotNames

\* the names of the model in the lexical order of ioutil.ReadDir
NameOrder == << ".git", "app.wasm", "index.bleve", "notes.org", "sub" >>

\* the path Walk hands to the function: the root as spelled, and
\* filepath.Join(dir, name) below it
WalkPath(root, rel) == IF rel = <<>> THEN root ELSE Clean(root \o rel)

\* info.Name(): the base name of the path as spelled
WalkName(root, rel) == IF rel = <<>> THEN root[Len(root)] ELSE rel[Len(rel)]

\* the entries of the directory rel, sorted
Children(tree, rel) ==
    LET names == SelectSeq(NameOrder,
                           LAMBDA n : \E e \in tree : e.rel = Append(rel, n))
    IN [i \in 1..Len(names) |->
          CHOOSE e \in tree : e.rel = Append(rel, names[i])]

\* the function IndexDirectory gives to Walk, on one entry
WalkFn(root, e) ==
    IF e.dir
    THEN IF \/ HasDotPrefix(WalkName(root, e.rel))
            \/ WalkPath(root, e.rel) = IndexLocation
            \/ WalkPath(root, e.rel) = HashLocation
         THEN "SkipDir"
         ELSE "descend"
    ELSE "IndexFile"

InitWalk ==
    /\ version = "main"
    /\ hashDirs = {}
    /\ fp = EmptyMap
    /\ index = EmptyMap
    /\ reg = registerDefaults
    /\ first = registerDefaults
    /\ lastCheck = NoCheck
    /\ writing = NoWrite
    /\ batch = NoBatch
    /\ calls = NoCalls
    /\ \E root \in WalkRoots, tree \in WalkTrees :
        walk = [root |-> root, tree |-> tree,
                todo |-> << [rel |-> <<>>, dir |-> TRUE] >>,
                called |-> <<>>, mode |-> "walk"]

\* Walk visits the next entry: the function skips the directory, or lets
\* Walk read it, or calls IndexFile on the file (holding content c)
WalkStep(c, io) ==
    /\ walk.mode = "walk"
    /\ walk.todo # <<>>
    /\ LET e == Head(walk.todo)
           path == WalkPath(walk.root, e.rel)
           fn == WalkFn(walk.root, e)
       IN IF fn = "IndexFile"
          THEN /\ Apply(IndexFileRun(path, c, io, hashDirs, fp, index))
               /\ walk' = [walk EXCEPT !.todo = Tail(walk.todo),
                                       !.called = Append(walk.called, path)]
          ELSE /\ walk' = [walk EXCEPT !.todo =
                              IF fn = "SkipDir" THEN Tail(walk.todo)
                              ELSE Children(walk.tree, e.rel) \o Tail(walk.todo)]
               /\ UNCHANGED <<hashDirs, fp, index>>
    /\ UNCHANGED <<version, reg, first, lastCheck, writing, batch, calls>>

NextWalk ==
    \E c \in Contents : WalkStep(c, IOOk)

SpecWalk == InitWalk /\ [][NextWalk]_vars

----------------------------------------------------------------------------
(* Vocabulary of the properties.  A property about "a call" is stated for *)
(* every call that can be made in a reachable state: Now(p, c, io) is the *)
(* outcome of processing path p, holding content c, under the             *)
(* environment's choices io, in the current state; Then(o, p, c, io) is   *)
(* the outcome of the call made right after a call with outcome o.  A     *)
(* call is IndexFile in main.go and Process in the processor.             *)

\* the paths the running generation is given
VPaths == IF version = "main" THEN MainPaths ELSE ProcessorPaths

CallOn(p, c, io, dirs, store, idx) ==
    IF version = "main" THEN IndexFileRun(p, c, io, dirs, store, idx)
    ELSE Process(p, c, io, dirs, store, idx, reg)

Now(p, c, io) == CallOn(p, c, io, hashDirs, fp, index)

Then(o, p, c, io) == CallOn(p, c, io, o.dirs, o.fp, o.idx)

\* the call performed step e
Reached(o, e) == \E i \in 1..Len(o.trace) : o.trace[i] = e

\* the call performed step a and, later, step b
Before(o, a, b) ==
    \E i, j \in 1..Len(o.trace) : i < j /\ o.trace[i] = a /\ o.trace[j] = b

\* the call left the three stores as they were
Untouched(o, dirs, store, idx) == o.dirs = dirs /\ o.fp = store /\ o.idx = idx

\* the entry under key k holds exactly the digest of content c
Holds(store, k, c) == k \in DOMAIN store /\ store[k] = Digest(c)

\* the index holds the document made from path p with content c
IndexedBy(idx, p, c) ==
    /\ Base(p) \in DOMAIN idx
    /\ idx[Base(p)].FullPath = Clean(p)
    /\ idx[Base(p)].Text.of = c

\* the fingerprint keys a call on p may write: its base name (IndexFile)
\* or its cleaned path (finishFile)
FpKeys(p) == { Base(p), Clean(p) }

Eligible(c) == SizeOf(c) <= MaxSize

\* how many times the call performed step e
Count(o, e) == Cardinality({ i \in 1..Len(o.trace) : o.trace[i] = e })

\* media types to resolve: of the categories text and image, the two
\* application types with built-in entries, and others
ProbeTypes ==
    { <<"text", "plain">>, <<"text", "x-org">>, <<"text", "html">>,
      <<"image", "png">>, <<"image", "jpeg">>,
      <<"application", "pdf">>, <<"application", "javascript">>,
      <<"application", "octet-stream">>, <<"application", "wasm">>,
      <<"video", "mp4">>, <<"audio", "mpeg">> }

\* ShouldProcess answers "already indexed": false, and no error
Skips(sp) == ~sp.should /\ sp.err = "none"

----------------------------------------------------------------------------
(* C1 *)

\* C1: a call writes to the fingerprint store only after its own index
\* write has succeeded, and an entry comes to hold the digest of a content
\* only in a call that has just indexed, under that key, a file with that
\* content.  The store is empty initially, so in every reachable state an
\* entry holding digest d under key k was preceded by a successful index
\* write for a file with key k and content of digest d.
C1_FingerprintOnlyAfterIndexWrite ==
    \A p \in VPaths, c \in Contents, io \in IOBase :
        LET o == Now(p, c, io)
        IN /\ (o.wrote \/ o.fp # fp \/ o.dirs # hashDirs) =>
                /\ io.index
                /\ IndexedBy(o.idx, p, c)
                /\ Before(o, "index", "fpwrite")
                /\ ~Before(o, "fpwrite", "index")
           /\ \A k \in DOMAIN o.fp, d \in Contents :
                (Holds(o.fp, k, d) /\ ~Holds(fp, k, d)) =>
                    /\ d = c
                    /\ k \in FpKeys(p)
                    /\ io.index
                    /\ IndexedBy(o.idx, p, c)

\* a fingerprint entry holds the digest of the content the index holds
C1_Witness ==
    \E p \in VPaths, c \in Contents :
        /\ IndexedBy(index, p, c)
        /\ \E k \in FpKeys(p) : Holds(fp, k, c)

----------------------------------------------------------------------------
(* C2 *)

\* C2: a call whose index submission fails reports it, does not call the
\* fingerprint write and leaves the fingerprint store as it was; checking
\* the file's base name against the digest of its content afterwards still
\* gives false (in the processor: ShouldProcess, which said true before the
\* call, says true after it).
C2_IndexFailureCommitsNothing ==
    \A p \in VPaths, c \in Contents, io \in IOBase :
        LET o == Now(p, c, io)
        IN (Reached(o, "index") /\ ~io.index) =>
               /\ o.err = "index"
               /\ ~o.wrote
               /\ ~Reached(o, "fpwrite")
               /\ o.fp = fp
               /\ o.dirs = hashDirs
               /\ version = "main" => ~CheckHash(o.fp, Base(p), HashFile(c, TRUE).h)
               /\ (version = "processor" /\ ShouldProcess(p, c, fp, TRUE).should) =>
                      /\ ~checkHash(o.fp, Base(p), hashFile(c, TRUE).h)
                      /\ ShouldProcess(p, c, o.fp, TRUE).should

\* an index write fails for a file whose base name has a fingerprint (of
\* other content) from an earlier call
C2_Witness ==
    \E p \in VPaths, c \in Contents, io \in IOBase :
        /\ Base(p) \in DOMAIN fp
        /\ Len(fp[Base(p)]) = HashLen
        /\ ~io.index
        /\ Now(p, c, io).err = "index"

----------------------------------------------------------------------------
(* C3 *)

\* C3: in main.go, when a call on an eligible file succeeds (it indexed the
\* file and wrote its fingerprint, or it skipped the file), the next call
\* on the same file with the same content takes the "Already indexed" path:
\* no extraction, no index submission, no fingerprint write, the three
\* stores unchanged, and no error.
C3_UnchangedFileIsSkipped ==
    version = "main" =>
        \A p \in MainPaths, c \in Contents, io1 \in IOBase :
            LET o1 == Now(p, c, io1)
            IN (Eligible(c) /\ o1.err = "none") =>
                   \A io2 \in IOBase :
                       LET o2 == Then(o1, p, c, io2)
                       IN /\ o2.skipped
                          /\ o2.err = "none"
                          /\ ~Reached(o2, "extract")
                          /\ ~Reached(o2, "index")
                          /\ ~Reached(o2, "fpwrite")
                          /\ Untouched(o2, o1.dirs, o1.fp, o1.idx)

\* a file has been indexed and fingerprinted by IndexFile, and a call on it
\* with the same content is skipped
C3_Witness ==
    /\ version = "main"
    /\ \E p \in MainPaths, c \in Contents, io \in IOBase :
        /\ Holds(fp, Base(p), c)
        /\ IndexedBy(index, p, c)
        /\ Now(p, c, io).skipped

----------------------------------------------------------------------------
(* C4 *)

\* C4: in the processor, after a successful Process(path), called when
\* ShouldProcess(path) said true, the entry that ShouldProcess(path) reads
\* (the base name under the hash directory) holds the digest just written,
\* so ShouldProcess(path) on the unchanged file answers false.
C4_ShouldProcessReadsWhatProcessWrote ==
    version = "processor" =>
        \A p \in ProcessorPaths, c \in Contents, io \in IOBase :
            LET o == Process(p, c, io, hashDirs, fp, index, reg)
            IN (ShouldProcess(p, c, fp, TRUE).should /\ o.err = "none") =>
                   /\ Holds(o.fp, Base(p), c)
                   /\ ~ShouldProcess(p, c, o.fp, TRUE).should

----------------------------------------------------------------------------
(* C5 *)

\* C5 as stated: whenever the content of a file at one call differs from
\* its content at the call before, the later call does not take the
\* "Already indexed" path (of IndexFile; of ShouldProcess in the processor).
C5_AnyChangeIsReprocessed ==
    \A p \in VPaths, c1 \in Contents, c2 \in Contents, io1 \in IOBase, io2 \in IOBase :
        LET o1 == Now(p, c1, io1)
            o2 == Then(o1, p, c2, io2)
        IN c1 # c2 =>
               /\ ~o2.skipped
               /\ ~Skips(ShouldProcess(p, c2, o1.fp, TRUE))

\* C5, amended: when the first call leaves the digest of the file's content
\* under the file's base name (as a successful or a skipped IndexFile call
\* does) and the content differs at the second call, the second call does
\* not take the "Already indexed" path (ShouldProcess says true for a file
\* within the size limit): a file within the size limit goes on to type
\* resolution, to extraction when its type has a translator, and to the
\* index submission when extraction succeeds.
C5_ChangeAfterCommitIsReprocessed ==
    \A p \in VPaths, c1 \in Contents, io1 \in IOBase :
        LET o1 == Now(p, c1, io1)
        IN Holds(o1.fp, Base(p), c1) =>
            \A c2 \in Contents \ {c1}, io2 \in IOBase :
                LET o2 == Then(o1, p, c2, io2)
                IN /\ ~o2.skipped
                   /\ ~Skips(ShouldProcess(p, c2, o1.fp, TRUE))
                   /\ Eligible(c2) =>
                        /\ version = "processor" => ShouldProcess(p, c2, o1.fp, TRUE).should
                        /\ Reached(o2, "type")
                        /\ o2.err \notin {"type", "unsupported"} => Reached(o2, "extract")
                        /\ (Reached(o2, "extract") /\ io2.extract) => Reached(o2, "index")

\* a file is indexed and fingerprinted with one content, and a call on it
\* with another content gets as far as the index submission
C5_Witness ==
    \E p \in VPaths, c1 \in Contents, c2 \in Contents, io \in IOBase :
        /\ c1 # c2
        /\ Holds(fp, Base(p), c1)
        /\ IndexedBy(index, p, c1)
        /\ Reached(Now(p, c2, io), "index")

----------------------------------------------------------------------------
(* C6 *)

\* C6: Process resolves the translator by the full type first and by the
\* category second: with both registered the full type's translator is
\* invoked (and its text indexed), with only the category registered the
\* category's, and with neither the call fails as unsupported, naming the
\* full type, invokes no translator and writes nothing.
C6_ExactTypeBeforeCategory ==
    version = "processor" =>
        \A p \in ProcessorPaths, c \in Contents, io \in IOBase :
            LET mt == TypeByExtension(Ext(p))
                cat == <<mt[1]>>
                o == Process(p, c, io, hashDirs, fp, index, reg)
                want == IF mt \in DOMAIN reg THEN reg[mt] ELSE reg[cat]
            IN IF mt \in DOMAIN reg \/ cat \in DOMAIN reg
               THEN /\ o.handler = want
                    /\ Reached(o, "extract")
                    /\ (io.extract /\ io.index) => o.idx[Base(p)].Text.by = want
               ELSE /\ o.err = "unsupported"
                    /\ o.named = mt
                    /\ o.handler = "none"
                    /\ ~Reached(o, "extract")
                    /\ Untouched(o, hashDirs, fp, index)

\* the category and the full type are registered with different
\* translators, and the index holds a text made by the full type's
C6_Witness ==
    /\ version = "processor"
    /\ <<"application">> \in DOMAIN reg
    /\ <<"application", "wasm">> \in DOMAIN reg
    /\ reg[<<"application">>] # reg[<<"application", "wasm">>]
    /\ \E k \in DOMAIN index : index[k].Text.by = reg[<<"application", "wasm">>]

----------------------------------------------------------------------------
(* C7 *)

\* C7: Register on a key that is present returns an error and changes
\* nothing; on an absent key it succeeds and adds exactly that mapping; so
\* every key maps to the translator it was first registered with.
C7_RegisterRejectsDuplicates ==
    /\ reg = first
    /\ \A mime \in RegKeys, ft \in Translators :
        LET r == RegisterRun(reg, mime, ft)
        IN IF mime \in DOMAIN reg
           THEN r.err /\ r.reg = reg
           ELSE /\ ~r.err
                /\ DOMAIN r.reg = DOMAIN reg \cup {mime}
                /\ r.reg[mime] = ft
                /\ \A k \in DOMAIN reg : r.reg[k] = reg[k]

\* a key registered by an earlier call is registered again with another
\* translator, and so is a built-in key
C7_Witness ==
    /\ \E mime \in RegKeys, ft \in Translators :
        /\ mime \in DOMAIN reg
        /\ mime \notin DOMAIN registerDefaults
        /\ reg[mime] # ft
        /\ RegisterRun(reg, mime, ft).err
    /\ \E mime \in RegKeys, ft \in Translators :
        /\ mime \in DOMAIN registerDefaults
        /\ RegisterRun(reg, mime, ft).err

----------------------------------------------------------------------------
(* C8 *)

\* C8: IndexFile on a file of more than 1,000,000 bytes stops after the
\* stat: no digest, no extraction, no index write, no fingerprint write; so
\* in main.go no document and no fingerprint of such a content ever exists.
\* ShouldProcess on such a file answers false, with an error, after the
\* stat alone.  A file of exactly 1,000,000 bytes passes the size test of
\* both and is digested.
C8_OversizedRejectedBeforeDigest ==
    /\ version = "main" =>
        /\ \A p \in MainPaths, c \in Contents, io \in IOBase :
            LET o == Now(p, c, io)
            IN /\ SizeOf(c) > MaxSize =>
                    /\ o.trace = <<"stat">>
                    /\ o.err = "tooLarge"
                    /\ ~o.skipped
                    /\ ~o.wrote
                    /\ Untouched(o, hashDirs, fp, index)
               /\ SizeOf(c) = MaxSize =>
                    /\ o.err # "tooLarge"
                    /\ Before(o, "stat", "hash")
        /\ \A k \in DOMAIN index : SizeOf(index[k].Text.of) <= MaxSize
        /\ \A k \in DOMAIN fp, c \in Contents :
            SizeOf(c) > MaxSize => fp[k] # Digest(c)
    /\ version = "processor" =>
        \A p \in ProcessorPaths, c \in Contents :
            LET sp == ShouldProcess(p, c, fp, TRUE)
            IN /\ SizeOf(c) > MaxSize =>
                    /\ sp.trace = <<"stat">>
                    /\ ~sp.should
                    /\ sp.err = "tooLarge"
               /\ SizeOf(c) = MaxSize =>
                    /\ sp.err # "tooLarge"
                    /\ Before(sp, "stat", "hash")
                    /\ sp.should = ~checkHash(fp, Base(p), Digest(c))

\* a file of exactly 1,000,000 bytes is in the index and fingerprinted,
\* and a call on it with a content of 1,000,001 bytes is rejected
C8_Witness ==
    \E p \in MainPaths, c \in Contents, big \in Contents, io \in IOBase :
        /\ SizeOf(c) = MaxSize
        /\ IndexedBy(index, p, c)
        /\ Holds(fp, Base(p), c)
        /\ SizeOf(big) = MaxSize + 1
        /\ Now(p, big, io).err = "tooLarge"

----------------------------------------------------------------------------
(* C9 *)

\* C9: a run on a file whose type has no translator stops with the
\* unsupported-type error and writes nothing; a later run on the unchanged
\* file, after Register has added a translator for its type, extracts it,
\* indexes it and then commits its fingerprint (when no step of that run
\* is made to fail).
C9_UnsupportedRetriedAfterRegister ==
    version = "processor" =>
        \A p \in ProcessorPaths, c \in Contents, io1 \in IOBase :
            LET o1 == Process(p, c, io1, hashDirs, fp, index, reg)
                mt == TypeByExtension(Ext(p))
            IN o1.err = "unsupported" =>
                /\ Untouched(o1, hashDirs, fp, index)
                /\ ~Reached(o1, "extract")
                /\ \A mime \in RegKeys, ft \in Translators, io2 \in IOBase :
                    LET r == RegisterRun(reg, mime, ft)
                        o2 == Process(p, c, io2, o1.dirs, o1.fp, o1.idx, r.reg)
                    IN (/\ ~r.err
                        /\ mime \in {mt, Category(mt)}
                        /\ io2.extract /\ io2.index /\ io2.fp = <<"write", HashLen>>) =>
                           /\ Before(o2, "extract", "index")
                           /\ Before(o2, "index", "fpwrite")
                           /\ IndexedBy(o2.idx, p, c)
                           /\ o2.idx[Base(p)].Text.by = ft
                           /\ o2.err = "none"
                           /\ checkHash(o2.fp, Base(p), Digest(c))
                           /\ ~ShouldProcess(p, c, o2.fp, TRUE).should

----------------------------------------------------------------------------
(* C10 *)

\* C10: a call whose translator returns an error stops with that error:
\* no index submission, no fingerprint write, the three stores as before;
\* the next call on the same file invokes the translator again.
C10_ExtractorFailureStopsTheCall ==
    \A p \in VPaths, c \in Contents, io1 \in IOBase :
        LET o1 == Now(p, c, io1)
        IN (Reached(o1, "extract") /\ ~io1.extract) =>
               /\ o1.err = "extract"
               /\ ~Reached(o1, "index")
               /\ ~Reached(o1, "fpwrite")
               /\ ~o1.wrote
               /\ Untouched(o1, hashDirs, fp, index)
               /\ \A io2 \in IOBase : Reached(Then(o1, p, c, io2), "extract")

\* the translator fails on a file that was indexed before with another
\* content: the old document and the old fingerprint stay
C10_Witness ==
    \E p \in VPaths, c1 \in Contents, c2 \in Contents, io \in IOBase :
        /\ c1 # c2
        /\ IndexedBy(index, p, c1)
        /\ ~io.extract
        /\ Now(p, c2, io).err = "extract"

----------------------------------------------------------------------------
(* C11 *)

\* C11: when the fingerprint write of a call fails after its index write
\* succeeded (MkdirAll or os.Create fails, or fd.Write is short), the
\* document is in the index, the call reports the failure, the entry
\* under the file's base name does not match the digest, and the next call
\* on the unchanged file is not skipped: it extracts again and, when
\* extraction succeeds, submits to the index again (in the processor:
\* ShouldProcess, which said true before the call, says true after it).
C11_FailedCommitIsReprocessed ==
    \A p \in VPaths, c \in Contents, io \in IOBase :
        LET o == Now(p, c, io)
        IN (Reached(o, "fpwrite") /\ o.err = "fpwrite") =>
            /\ Before(o, "index", "fpwrite")
            /\ IndexedBy(o.idx, p, c)
            /\ (version = "main" \/ ShouldProcess(p, c, fp, TRUE).should) =>
                 /\ ~CheckHash(o.fp, Base(p), Digest(c))
                 /\ version = "processor" => ShouldProcess(p, c, o.fp, TRUE).should
            /\ \A io2 \in IOBase :
                LET o2 == Then(o, p, c, io2)
                IN /\ ~o2.skipped
                   /\ Reached(o2, "extract")
                   /\ io2.extract => Reached(o2, "index")

\* a short write left a truncated entry under the base name of a file that
\* is in the index, and a call on the unchanged file reaches the index again
C11_Witness ==
    \E p \in VPaths, c \in Contents, io \in IOBase :
        /\ IndexedBy(index, p, c)
        /\ Base(p) \in DOMAIN fp
        /\ Len(fp[Base(p)]) < HashLen
        /\ Reached(Now(p, c, io), "index")

----------------------------------------------------------------------------
(* C12 *)

\* C12: the fingerprint check answers true exactly when an entry exists
\* under the key and its bytes are the digest's, in length and in content;
\* a missing entry, a shorter one and a longer one give false without an
\* error; an entry that cannot be read gives false with an error.
C12_CheckIsByteEquality ==
    /\ \A file \in StoreKeys, c \in Contents :
        LET r == CheckHashRun(fp, file, Digest(c), TRUE)
        IN /\ ~r.err
           /\ r.ok <=> (file \in DOMAIN fp /\ fp[file] = Digest(c))
           /\ (file \in DOMAIN fp /\ Len(fp[file]) # HashLen) => ~r.ok
    /\ lastCheck.asked =>
        /\ lastCheck.ok <=>
             /\ lastCheck.file \in DOMAIN fp
             /\ lastCheck.readable
             /\ fp[lastCheck.file] = lastCheck.hash
        /\ lastCheck.err <=> (lastCheck.file \in DOMAIN fp /\ ~lastCheck.readable)

\* the check was called on an entry one byte longer than the digest, whose
\* first bytes are the digest's, and answered false without an error
C12_Witness ==
    /\ lastCheck.asked
    /\ lastCheck.readable
    /\ lastCheck.file \in DOMAIN fp
    /\ Len(fp[lastCheck.file]) = HashLen + 1
    /\ SubSeq(fp[lastCheck.file], 1, HashLen) = lastCheck.hash
    /\ ~lastCheck.ok
    /\ ~lastCheck.err

----------------------------------------------------------------------------
(* C13 *)

\* C13: a fingerprint check that runs while an entry is being written
\* reads a complete entry, the old one or the new one: the bytes it reads
\* are a whole digest, never an empty or a partly written entry.
C13_ReaderSeesWholeEntry ==
    (lastCheck.asked /\ lastCheck.found) =>
        /\ Len(lastCheck.read) = HashLen
        /\ \E c \in Contents : lastCheck.read = Digest(c)

----------------------------------------------------------------------------
(* C14 *)

\* C14: a call on path P leaves the outcome for every other path Q as it
\* was: Q is taken as already indexed after the call exactly when it was
\* before it (in the processor: ShouldProcess(Q) answers the same), and a
\* document of Q in the index stays.
C14_DistinctPathsIndependent ==
    \A p \in VPaths, q \in VPaths, c \in Contents, d \in Contents, io \in IOBase :
        Clean(p) # Clean(q) =>
            LET o == Now(p, c, io)
            IN /\ CheckHash(o.fp, Base(q), Digest(d)) = CheckHash(fp, Base(q), Digest(d))
               /\ version = "main" =>
                    \A io2 \in IOBase :
                        Then(o, q, d, io2).skipped = Now(q, d, io2).skipped
               /\ version = "processor" =>
                    ShouldProcess(q, d, o.fp, TRUE) = ShouldProcess(q, d, fp, TRUE)
               /\ IndexedBy(index, q, d) => IndexedBy(o.idx, q, d)

----------------------------------------------------------------------------
(* C15 *)

\* C15: no failure on a file of the batch ends the run: as long as files
\* of the argument list remain, whatever went wrong with the files before
\* them, the process is alive to attempt them.
C15_FailureNeverEndsTheBatch ==
    batch.todo # <<>> => batch.alive

----------------------------------------------------------------------------
(* C16 *)

\* C16: three runs of IndexFile on one text file, nothing failing.  The
\* first, on a file whose content is not fingerprinted yet, makes exactly
\* one index write and one fingerprint write; the second, on the unchanged
\* file, makes no index write and no fingerprint write; the third, after
\* the content was edited, makes exactly one index write and one
\* fingerprint write, and the entry then is the digest of the edited
\* content and the document the one of the edited content.
C16_ThreeRuns ==
    version = "main" =>
        \A p \in MainPaths, c1 \in Contents, c2 \in Contents :
            (/\ Category(TypeByExtension(Ext(p))) = <<"text">>
             /\ Eligible(c1) /\ Eligible(c2) /\ c1 # c2
             /\ ~CheckHash(fp, Base(p), Digest(c1))) =>
                LET o1 == Now(p, c1, IOOk)
                    o2 == Then(o1, p, c1, IOOk)
                    o3 == Then(o2, p, c2, IOOk)
                IN /\ Count(o1, "index") = 1 /\ Count(o1, "fpwrite") = 1
                   /\ o1.err = "none"
                   /\ Holds(o1.fp, Base(p), c1) /\ IndexedBy(o1.idx, p, c1)
                   /\ Count(o2, "index") = 0 /\ Count(o2, "fpwrite") = 0
                   /\ o2.skipped /\ o2.err = "none"
                   /\ Untouched(o2, o1.dirs, o1.fp, o1.idx)
                   /\ Count(o3, "index") = 1 /\ Count(o3, "fpwrite") = 1
                   /\ o3.err = "none"
                   /\ Holds(o3.fp, Base(p), c2) /\ IndexedBy(o3.idx, p, c2)
                   /\ DOMAIN o3.idx = DOMAIN o1.idx

\* the first run has been made on a text file: the second run skips it
\* and the third, on an edited content, indexes it once
C16_Witness ==
    /\ version = "main"
    /\ \E p \in MainPaths, c1 \in Contents, c2 \in Contents :
        /\ Category(TypeByExtension(Ext(p))) = <<"text">>
        /\ c1 # c2 /\ Eligible(c2)
        /\ Holds(fp, Base(p), c1)
        /\ IndexedBy(index, p, c1)
        /\ Now(p, c1, IOOk).skipped
        /\ Count(Now(p, c2, IOOk), "index") = 1
        /\ Holds(Now(p, c2, IOOk).fp, Base(p), c2)

----------------------------------------------------------------------------
(* C17 *)

\* C17: one flag selects the mode: with --index alone main enters the
\* indexing loop, with --query alone it runs the query (when the index
\* opens), and it ends with the usage error only when neither flag was
\* given.
C17_OneFlagSelectsTheMode ==
    batch.mode \notin {"none", "start", "fatal"} =>
        LET f == batch.flags
        IN /\ (~f.help /\ f.index /\ ~f.query) => batch.mode = "index"
           /\ (~f.help /\ f.query /\ ~f.index) => batch.mode = "query"
           /\ batch.mode = "usage" => (~f.query /\ ~f.index)

----------------------------------------------------------------------------
(* C18 *)

\* C18: the index is keyed by path: a successful submission of the record
\* of path P puts P's record in the index and leaves the document of every
\* other path as it was, also when the other path has P's base name; so
\* the documents in the index are of pairwise different paths.  Stated
\* for Index, the method IndexFile and Process call.
C18_DocumentsKeyedByPath ==
    \A p \in VPaths, c \in Contents :
        LET fd == FileData(p, TypeByExtension(Ext(p)), [by |-> "getPlainTextContent", of |-> c])
            kept(after) ==
                \A k \in DOMAIN index :
                    index[k].FullPath # fd.FullPath =>
                        \E j \in DOMAIN after : after[j] = index[k]
            held(after) == \E j \in DOMAIN after : after[j] = fd
        IN /\ held(Index(index, fd, TRUE).idx)
           /\ kept(Index(index, fd, TRUE).idx)

----------------------------------------------------------------------------
(* C19 *)

\* C19: while the registry is the one NewProcessor made (no Register call
\* has added to it), the lookup of Process gives getPlainTextContent for
\* every type of category text and ocrImageFile for every type of category
\* image, both through the category entry; application/pdf and
\* application/javascript resolve through their own entries; every other
\* type has no translator, and Process on a file of such a type fails as
\* unsupported, naming the type.
C19_DefaultsResolve ==
    (version = "processor" /\ reg = registerDefaults) =>
        /\ \A mt \in ProbeTypes :
            LET lk == Lookup(reg, mt)
            IN CASE mt[1] = "text" ->
                      /\ mt \notin DOMAIN reg
                      /\ lk = [exists |-> TRUE, ft |-> "getPlainTextContent"]
                 [] mt[1] = "image" ->
                      /\ mt \notin DOMAIN reg
                      /\ lk = [exists |-> TRUE, ft |-> "ocrImageFile"]
                 [] mt = <<"application", "pdf">> ->
                      /\ mt \in DOMAIN reg /\ Category(mt) \notin DOMAIN reg
                      /\ lk = [exists |-> TRUE, ft |-> "ocrImageFile"]
                 [] mt = <<"application", "javascript">> ->
                      /\ mt \in DOMAIN reg /\ Category(mt) \notin DOMAIN reg
                      /\ lk = [exists |-> TRUE, ft |-> "getPlainTextContent"]
                 [] OTHER -> lk = [exists |-> FALSE, ft |-> "none"]
        /\ \A p \in ProcessorPaths, c \in Contents, io \in IOBase :
            LET o == Process(p, c, io, hashDirs, fp, index, reg)
            IN TypeByExtension(Ext(p)) = <<"application", "wasm">> =>
                 /\ o.err = "unsupported"
                 /\ o.named = <<"application", "wasm">>
                 /\ Untouched(o, hashDirs, fp, index)

\* the processor as NewProcessor made it: a text type resolves, and
\* Process on a wasm file fails as unsupported
C19_Witness ==
    /\ version = "processor"
    /\ reg = registerDefaults
    /\ Lookup(reg, <<"text", "plain">>).exists
    /\ \E p \in ProcessorPaths, c \in Contents :
        Process(p, c, IOOk, hashDirs, fp, index, reg).err = "unsupported"

----------------------------------------------------------------------------
(* C20 *)

\* C20: take a call that goes through to its fingerprint write while
\* another program rewrites the file once, from c1 to c2: the file holds c1
\* at the change-detection step (the HashFile of IndexFile; the
\* ShouldProcess that precedes Process), c2 at the fingerprint write and
\* from then on, and the translator in between reads ce, one of the two.
\* The entry written holds the digest of c1, not that of c2; and if the
\* indexed text was not made from c2, the next run, which finds c2, does
\* not take the "Already indexed" path.
C20_CommitsTheDetectedDigest ==
    \A p \in VPaths, c1 \in Contents, c2 \in Contents :
        \A ce \in {c1, c2} :
            LET detected == IF version = "main" THEN TRUE
                            ELSE ShouldProcess(p, c1, fp, TRUE).should
                o == IF version = "main"
                     THEN IndexFileReads(p, c1, ce, IOOk, hashDirs, fp, index)
                     ELSE ProcessReads(p, ce, c2, IOOk, hashDirs, fp, index, reg)
            IN (c1 # c2 /\ detected /\ o.wrote /\ o.err = "none") =>
                 /\ \E k \in FpKeys(p) : Holds(o.fp, k, c1)
                 /\ \A k \in FpKeys(p) : ~Holds(o.fp, k, c2)
                 /\ ~IndexedBy(o.idx, p, c2) =>
                        IF version = "main"
                        THEN ~IndexFileRun(p, c2, IOOk, o.dirs, o.fp, o.idx).skipped
                        ELSE ~Skips(ShouldProcess(p, c2, o.fp, TRUE))

----------------------------------------------------------------------------
(* C21 *)

\* C21: two calls of IndexFile run at the same time on the same file,
\* whose content does not change.  However their statements interleave,
\* once both have returned the hash location, the fingerprint store and
\* the index are exactly what one call alone would have left; and when
\* that one call ends without error, the index holds the document of the
\* path with the file's text and the entry of the file is the digest of
\* its content.
C21_ConcurrentCallsAsOne ==
    (calls.at # <<>> /\ \A i \in Callers : calls.at[i].pc = "done") =>
        LET p == calls.file
            c == calls.content
            o == IndexFileRun(p, c, IOOk, calls.from.dirs, calls.from.fp, calls.from.idx)
        IN /\ hashDirs = o.dirs
           /\ fp = o.fp
           /\ index = o.idx
           /\ o.err = "none" =>
                /\ IndexedBy(index, p, c)
                /\ Holds(fp, Base(p), c)

\* both calls passed the check, both extracted and submitted, both wrote the
\* fingerprint, and both have returned
C21_Witness ==
    /\ calls.at # <<>>
    /\ \A i \in Callers :
        /\ calls.at[i].pc = "done"
        /\ ~calls.at[i].skipped
        /\ calls.at[i].fd # NoData
    /\ Holds(fp, Base(calls.file), calls.content)
    /\ calls.from.fp # EmptyMap

----------------------------------------------------------------------------
(* C22 *)

\* C22: when the fingerprint write of digest d under key k succeeds,
\* whatever was under k before (nothing, a shorter entry, a longer one, a
\* different digest), the check of k against d answers true, the check of
\* k against every other byte sequence answers false, and the hash
\* location exists afterwards.
C22_CheckAfterWrite ==
    \A k \in CommitKeys, c \in Contents, out \in FpOutcomes :
        LET w == CommitRun(hashDirs, fp, k, c, out)
            d == Digest(c)
        IN ~w.err =>
             /\ CheckHash(w.fp, k, d)
             /\ checkHash(w.fp, k, d)
             /\ \A e \in Entries : e # d => ~CheckHash(w.fp, k, e) /\ ~checkHash(w.fp, k, e)
             /\ <<>> \in w.dirs

\* an entry longer than a digest is replaced by a successful write and the
\* check then answers true; and on an absent hash location the write
\* succeeds too
C22_Witness ==
    \E k \in CommitKeys, c \in Contents :
        LET w == CommitRun(hashDirs, fp, k, c, <<"write", HashLen>>)
        IN /\ ~w.err
           /\ CheckHash(w.fp, k, Digest(c))
           /\ \/ k \in DOMAIN fp /\ Len(fp[k]) > HashLen
              \/ <<>> \notin hashDirs

----------------------------------------------------------------------------
(* C23 *)

\* C23: when the digest of the file cannot be computed, the call that
\* detects changes (IndexFile; ShouldProcess in the processor) does not
\* answer "already indexed", and nothing follows it: no extraction, no
\* index write, no fingerprint write, the stores stay as they were; no
\* entry is compared with an empty digest and none is written from one.
C23_NoDigestNoDecision ==
    \A p \in VPaths, c \in Contents :
        IF version = "main"
        THEN \A io \in IOAll :
               LET o == IndexFileRun(p, c, io, hashDirs, fp, index)
               IN (~io.hash /\ ~TooLarge(SizeOf(c))) =>
                    /\ ~o.skipped
                    /\ ~Reached(o, "extract")
                    /\ ~Reached(o, "index")
                    /\ ~o.wrote
                    /\ Untouched(o, hashDirs, fp, index)
        ELSE LET sp == ShouldProcess(p, c, fp, FALSE)
             IN ~TooLarge(SizeOf(c)) =>
                  /\ ~Skips(sp)
                  /\ ~sp.should
                  /\ sp.err = "hash"

----------------------------------------------------------------------------
(* C24 *)

\* C24: a call makes each of its steps at most once, whichever step
\* fails: at most one invocation of the translator, one index write and
\* one fingerprint write; the step that fails is the last one the call
\* makes, and a failed index write leaves the index and the fingerprint
\* store as they were.
C24_NoInternalRetry ==
    \A p \in VPaths, c \in Contents, io \in IOAll :
        LET o == Now(p, c, io)
        IN /\ Count(o, "extract") <= 1
           /\ Count(o, "index") <= 1
           /\ Count(o, "fpwrite") <= 1
           /\ o.wrote <=> Count(o, "fpwrite") = 1
           /\ o.err = "extract" => o.trace[Len(o.trace)] = "extract"
           /\ o.err = "index" =>
                /\ o.trace[Len(o.trace)] = "index"
                /\ o.idx = index /\ o.fp = fp
           /\ o.err = "fpwrite" =>
                /\ o.trace[Len(o.trace)] = "fpwrite"
                /\ Count(o, "index") = 1

\* with documents in the index already, a call whose index write fails
\* has invoked its translator once and written nothing
C24_Witness ==
    /\ index # EmptyMap
    /\ \E p \in VPaths, c \in Contents, io \in IOAll :
        LET o == Now(p, c, io)
        IN /\ ~io.index
           /\ o.err = "index"
           /\ Count(o, "extract") = 1
           /\ Count(o, "index") = 1
           /\ Count(o, "fpwrite") = 0

----------------------------------------------------------------------------
(* C25 *)

\* C25: a call on a file whose extension gives no content type (and which
\* is not too large) fails with the type error: no translator is looked up
\* and none is invoked, there is no index write and no fingerprint write,
\* and the stores are as before.
C25_NoTypeNoLookup ==
    \A p \in UntypedPaths, c \in Contents, io \in IOBase :
        LET o == CallOn(p, c, io, hashDirs, fp, index)
        IN (version = "main" => ~TooLarge(SizeOf(c))) =>
             /\ TypeByExtension(Ext(p)) = <<>>
             /\ o.err = "type"
             /\ o.trace[Len(o.trace)] = "type"
             /\ ~Reached(o, "resolve")
             /\ ~Reached(o, "extract")
             /\ o.handler = "none"
             /\ ~Reached(o, "index")
             /\ ~Reached(o, "fpwrite") /\ ~o.wrote
             /\ Untouched(o, hashDirs, fp, index)

\* with documents in the index and, in the processor, a translator
\* registered for "application", a call on Makefile fails with the type
\* error
C25_Witness ==
    /\ index # EmptyMap
    /\ version = "processor" => <<"application">> \in DOMAIN reg
    /\ \E c \in Contents :
        CallOn(<<".", "Makefile">>, c, IOOk, hashDirs, fp, index).err = "type"

----------------------------------------------------------------------------
(* C26 *)

\* C26: in the processor, at every moment the registry is the built-in
\* defaults, unchanged, plus the keys registered since, each mapped to the
\* translator of its first Register call; a step that writes to the index
\* or to the fingerprint store (a Process call) leaves the registry as it
\* is; and no step removes a key or maps an existing key to another
\* translator.
C26_ProcessKeepsRegistry ==
    /\ [](version = "processor" =>
            /\ reg = first
            /\ \A k \in DOMAIN registerDefaults :
                 k \in DOMAIN reg /\ reg[k] = registerDefaults[k])
    /\ [][(hashDirs' # hashDirs \/ fp' # fp \/ index' # index) => reg' = reg]_vars
    /\ [][\A k \in DOMAIN reg : k \in DOMAIN reg' /\ reg'[k] = reg[k]]_vars

\* after Register calls that added two keys and Process calls that indexed
\* a file and wrote its fingerprint, a Register call on one of the added
\* keys with another translator is refused
C26_Witness ==
    /\ version = "processor"
    /\ Cardinality(DOMAIN reg) >= Cardinality(DOMAIN registerDefaults) + 2
    /\ index # EmptyMap
    /\ fp # EmptyMap
    /\ \E mime \in RegKeys, ft \in Translators :
        /\ mime \in DOMAIN reg
        /\ reg[mime] # ft
        /\ RegisterRun(reg, mime, ft).reg = reg

----------------------------------------------------------------------------
(* C27 *)

\* C27: when the walk of IndexDirectory(dir) is over, IndexFile was called
\* exactly once on every file of the tree that lies in no directory below
\* dir whose name begins with "." and in neither the index location nor
\* the hash location, and on nothing else; also when dir is spelled "."
\* or with another name beginning with ".".
C27_WalkCallsIndexFileOnce ==
    (walk.mode = "walk" /\ walk.todo = <<>>) =>
        LET root == walk.root
            inside(rel) ==
                \E n \in 1..(Len(rel) - 1) :
                    \/ HasDotPrefix(rel[n])
                    \/ Clean(root \o SubSeq(rel, 1, n)) \in { IndexLocation, HashLocation }
            times(path) ==
                Cardinality({ i \in 1..Len(walk.called) : walk.called[i] = path })
        IN /\ \A e \in walk.tree :
                ~e.dir => times(WalkPath(root, e.rel)) = IF inside(e.rel) THEN 0 ELSE 1
           /\ \A i \in 1..Len(walk.called) :
                \E e \in walk.tree : ~e.dir /\ walk.called[i] = WalkPath(root, e.rel)

====
